---- MODULE Spec2Model ----
(***************************************************************************)
(* wyoming-cloud-streamer: the synthesis relay (handler.py) and the two    *)
(* provider adapters with their engine registry (engines.py).              *)
(*                                                                         *)
(* Bytes are integers 0..255, byte strings are sequences of bytes.  Text   *)
(* is a sequence of one-character strings.  A voice name is the sequence   *)
(* of its hyphen-separated segments ("en-US-openai-alloy" is               *)
(* <<"en","US","openai","alloy">>); None is the string "None".             *)
(***************************************************************************)
EXTENDS Integers, Sequences, FiniteSets, TLC

VARIABLES
    \* ---- CloudStreamerEventHandler (one connection) ----
    streaming,      \* cli_args.streaming (--streaming, store_true)
    is_streaming,   \* self.is_streaming: "None" | "True" | "False"
    sbd,            \* self.sbd: text the segmenter holds back for finish()
    synthesize_,    \* self._synthesize: NoSynth or [text, voice]
    pc,             \* where the handler is: "idle" | "synth" | "closed"
                    \* ("bench": there is no handler, an adapter runs alone)
    req,            \* the event being handled (or handled last)
    todo,           \* sentences of the running StreamChunk loop not yet visited
    announced,      \* _synthesize_with_engine's local flag
    trace,          \* every event written with write_event, in order
    \* ---- the engine generator the handler is pulling ----
    gen,            \* locals and position of engine.stream(...)
    stream,         \* the upstream response: all the bytes it will deliver
    upos,           \* how many of them the adapter has received
    emitted,        \* the ('format'|'chunk', payload) pairs yielded so far
    \* ---- history the properties read ----
    nreq,           \* events received on the connection
    utt,            \* utterances started (_synthesize_with_engine calls)
    picks,          \* ENGINE_REGISTRY.pick calls
    calls,          \* engine.stream(...) generators started
    sentences,      \* what add_chunk returned for the last StreamChunk
    spoken,         \* texts handed to _synthesize_with_engine by this request
    voice_name,     \* voice_name of the latest _synthesize_with_engine call
    started,        \* a SynthesizeStart event has been received
    last,           \* how the last handler call ended: "none" | "ok" |
                    \* "raised" | "aborted" ("running": it has not ended)
    \* ---- what the server process holds besides this connection ----
    peer,           \* <<>>, or <<c>>: a second connection c, waiting at an await
    registry,       \* ENGINE_REGISTRY._engines: the engine instances all share
    orphan          \* a generator left suspended at a yield by a handler that
                    \* was aborted, until it is finalized (NoGen: none)

hvars == <<streaming, is_streaming, sbd, synthesize_, pc, req, todo, announced, trace>>
gvars == <<gen, stream, upos, emitted>>
ovars == <<nreq, utt, picks, calls, sentences, spoken, voice_name, started, last>>
pvars == <<peer, registry, orphan>>
vars == <<hvars, gvars, ovars, pvars>>

----------------------------------------------------------------------------
(* Bounds of the model *)

\* payload bytes after the 44-byte header in the responses that are tried
MaxPayload == 2
\* events a connection receives
MaxRequests == 3
\* sentences one add_chunk call returns
MaxSentences == 2

----------------------------------------------------------------------------
(* Bytes *)

None == -1

\* Python truthiness of an Optional[int]: None and 0 are false
Truthy(x) == x # None /\ x # 0

RECURSIVE FromBytesLE(_)
\* int.from_bytes(b, "little", signed=False)
FromBytesLE(b) ==
    IF b = <<>> THEN 0 ELSE Head(b) + 256 * FromBytesLE(Tail(b))

RECURSIVE ToBytesLE(_, _)
\* n.to_bytes(k, "little"): what an upstream writes into a header field
ToBytesLE(n, k) ==
    IF k = 0 THEN <<>> ELSE <<n % 256>> \o ToBytesLE(n \div 256, k - 1)

\* buf[a:b] of Python (0-based, end exclusive, clipped to the buffer)
Slice(buf, a, b) ==
    SubSeq(buf, a + 1, IF b < Len(buf) THEN b ELSE Len(buf))

\* buf[a:]
SliceFrom(buf, a) == SubSeq(buf, a + 1, Len(buf))

RIFF == <<82, 73, 70, 70>>
WAVE == <<87, 65, 86, 69>>

HeaderLen == 44
DefaultRate == 24000
DefaultChannels == 1
DefaultWidth == 2
GoogleRate == 22050

----------------------------------------------------------------------------
(* engines.py: AudioFormat and the adapters' yields *)

AudioFormat(rate, width, channels) ==
    [rate |-> rate, width |-> width, channels |-> channels]

NoFormat == AudioFormat(0, 0, 0)

\* ("format", AudioFormat(...)) and ("chunk", bytes); kind "none": nothing yielded
FormatEvent(fmt) == [kind |-> "format", fmt |-> fmt, data |-> <<>>]
ChunkEvent(data) == [kind |-> "chunk", fmt |-> NoFormat, data |-> data]
NoYield == [kind |-> "none", fmt |-> NoFormat, data |-> <<>>]

\* try_parse_wav_header testing only buf[0:4] == b"RIFF"
try_parse_riff_only(buf) ==
    IF Len(buf) < HeaderLen
    THEN [ok |-> FALSE, data_off |-> 0, sr |-> None, ch |-> None, w |-> None]
    ELSE IF ~(Slice(buf, 0, 4) = RIFF)
    THEN [ok |-> TRUE, data_off |-> 0, sr |-> None, ch |-> None, w |-> None]
    ELSE LET ch == FromBytesLE(Slice(buf, 22, 24))
             sr == FromBytesLE(Slice(buf, 24, 28))
             bits == FromBytesLE(Slice(buf, 34, 36))
         IN  [ok |-> TRUE, data_off |-> HeaderLen, sr |-> sr, ch |-> ch,
              w |-> IF bits # 0 THEN bits \div 8 ELSE None]

\* OpenAITTSEngine.stream's nested try_parse_wav_header:
\* (ok, data_offset, sr, ch, width_bytes)
try_parse_wav_header(buf) ==
    IF Len(buf) < HeaderLen
    THEN [ok |-> FALSE, data_off |-> 0, sr |-> None, ch |-> None, w |-> None]
    ELSE IF ~(Slice(buf, 0, 4) = RIFF /\ Slice(buf, 8, 12) = WAVE)
    THEN [ok |-> TRUE, data_off |-> 0, sr |-> None, ch |-> None, w |-> None]
    ELSE LET ch == FromBytesLE(Slice(buf, 22, 24))
             sr == FromBytesLE(Slice(buf, 24, 28))
             bits == FromBytesLE(Slice(buf, 34, 36))
         IN  [ok |-> TRUE, data_off |-> HeaderLen, sr |-> sr, ch |-> ch,
              w |-> IF bits # 0 THEN bits \div 8 ELSE None]

\* The generator object of engine.stream(...): its locals, where it is suspended
\* (pos) and the value it is suspended on (out).
\*   "start"          created, not yet run
\*   "read"           inside the for loop, waiting for the next upstream fragment
\*   "yield_format"   suspended at yield ("format", ...)
\*   "yield_payload"  suspended at yield ("chunk", payload)   (engines.py:137)
\*   "yield_chunk"    suspended at yield ("chunk", chunk)     (engines.py:64, 143)
\*   "done"           returned
\* resp is the upstream response (resp of engines.py:115, responses of
\* engines.py:61): "none" before the call is made, then "open", then "closed"
NewGen(provider) ==
    [provider |-> provider, pos |-> "start",
     got_header |-> FALSE, header_buf |-> <<>>,
     sample_rate |-> DefaultRate, channels |-> DefaultChannels, width |-> DefaultWidth,
     data_off |-> 0, out |-> NoYield, resp |-> "none"]

NoGen == [NewGen("none") EXCEPT !.pos = "done"]

Suspended(g) == g.pos \in {"yield_format", "yield_payload", "yield_chunk"}

\* GoogleTTSEngine.stream, from its creation to the first yield: the format is
\* announced before the upstream call is made
GoogleStart(g) ==
    [g EXCEPT !.pos = "yield_format",
              !.out = FormatEvent(AudioFormat(GoogleRate, 2, 1))]

\* GoogleTTSEngine.stream, body of `for resp in responses` for one response
GoogleFeed(g, chunk) ==
    IF chunk # <<>>
    THEN [g EXCEPT !.pos = "yield_chunk", !.out = ChunkEvent(chunk)]
    ELSE g

\* GoogleTTSEngine.stream resumed after a yield: open the upstream call, or go
\* on to the next response
GoogleResume(g) == [g EXCEPT !.pos = "read", !.out = NoYield, !.resp = "open"]

\* OpenAITTSEngine.stream, from its creation to the first read of resp.iter_bytes()
OpenAIStart(g) == [g EXCEPT !.pos = "read", !.resp = "open"]

\* OpenAIFeed with lines 127-129 testing `is not None` instead of truthiness
OpenAIFeedOverwrite(g, chunk) ==
    IF chunk = <<>> THEN g
    ELSE IF ~g.got_header
    THEN LET buf == g.header_buf \o chunk
             r == try_parse_wav_header(buf)
             rate == IF r.sr # None THEN r.sr ELSE g.sample_rate
             chans == IF r.ch # None THEN r.ch ELSE g.channels
             wid == IF r.w # None THEN r.w ELSE g.width
         IN  IF ~r.ok
             THEN [g EXCEPT !.header_buf = buf]
             ELSE [g EXCEPT !.header_buf = buf,
                            !.sample_rate = rate, !.channels = chans, !.width = wid,
                            !.data_off = r.data_off,
                            !.pos = "yield_format",
                            !.out = FormatEvent(AudioFormat(rate, wid, chans))]
    ELSE [g EXCEPT !.pos = "yield_chunk", !.out = ChunkEvent(chunk)]

\* OpenAITTSEngine.stream, body of `for chunk in resp.iter_bytes()` for one fragment
OpenAIFeed(g, chunk) ==
    IF chunk = <<>> THEN g
    ELSE IF ~g.got_header
    THEN LET buf == g.header_buf \o chunk
             r == try_parse_wav_header(buf)
             rate == IF Truthy(r.sr) THEN r.sr ELSE g.sample_rate
             chans == IF Truthy(r.ch) THEN r.ch ELSE g.channels
             wid == IF Truthy(r.w) THEN r.w ELSE g.width
         IN  IF ~r.ok
             THEN [g EXCEPT !.header_buf = buf]
             ELSE [g EXCEPT !.header_buf = buf,
                            !.sample_rate = rate, !.channels = chans, !.width = wid,
                            !.data_off = r.data_off,
                            !.pos = "yield_format",
                            !.out = FormatEvent(AudioFormat(rate, wid, chans))]
    ELSE [g EXCEPT !.pos = "yield_chunk", !.out = ChunkEvent(chunk)]

\* OpenAIResume without lines 135-137: what follows the header in the buffer is
\* not emitted
OpenAIResumeDropPayload(g) ==
    IF g.pos \in {"yield_format", "yield_payload"}
    THEN [g EXCEPT !.got_header = TRUE, !.pos = "read", !.out = NoYield]
    ELSE [g EXCEPT !.pos = "read", !.out = NoYield]

\* OpenAIResume without `got_header = True` (engines.py:139)
OpenAIResumeNoFlag(g) ==
    IF g.pos = "yield_format"
    THEN LET payload == SliceFrom(g.header_buf, g.data_off)
         IN  IF payload # <<>>
             THEN [g EXCEPT !.pos = "yield_payload", !.out = ChunkEvent(payload)]
             ELSE [g EXCEPT !.pos = "read", !.out = NoYield]
    ELSE [g EXCEPT !.pos = "read", !.out = NoYield]

\* OpenAITTSEngine.stream resumed after a yield
OpenAIResume(g) ==
    IF g.pos = "yield_format"
    THEN LET payload == SliceFrom(g.header_buf, g.data_off)
         IN  IF payload # <<>>
             THEN [g EXCEPT !.pos = "yield_payload", !.out = ChunkEvent(payload)]
             ELSE [g EXCEPT !.got_header = TRUE, !.pos = "read", !.out = NoYield]
    ELSE IF g.pos = "yield_payload"
    THEN [g EXCEPT !.got_header = TRUE, !.pos = "read", !.out = NoYield]
    ELSE [g EXCEPT !.pos = "read", !.out = NoYield]

\* BaseTTSEngine.stream dispatch: the generator runs to its next suspension
GenStart(g) == IF g.provider = "google" THEN GoogleStart(g) ELSE OpenAIStart(g)
GenFeed(g, chunk) ==
    IF g.provider = "google" THEN GoogleFeed(g, chunk) ELSE OpenAIFeed(g, chunk)
GenResume(g) == IF g.provider = "google" THEN GoogleResume(g) ELSE OpenAIResume(g)
\* the upstream iterator is exhausted: the for loop ends and the generator returns
\* (the `with` block of engines.py:111 closes resp; the Google call is over)
GenEnd(g) == [g EXCEPT !.pos = "done", !.out = NoYield, !.resp = "closed"]

\* what the caller has received once the generator has run to g
Yields(em, g) == IF Suspended(g) THEN Append(em, g.out) ELSE em

\* the next fragment of n bytes of the upstream response
Fragment(n) == SubSeq(stream, upos + 1, upos + n)
Remaining == Len(stream) - upos

----------------------------------------------------------------------------
(* Upstream responses that are tried *)

\* a 44-byte RIFF/WAVE header as an upstream writes it
WavHeader(ch, sr, bits) ==
    RIFF \o <<255, 255, 255, 255>> \o WAVE \o <<102, 109, 116, 32>>
      \o ToBytesLE(16, 4) \o ToBytesLE(1, 2) \o ToBytesLE(ch, 2) \o ToBytesLE(sr, 4)
      \o ToBytesLE(sr * ch * (bits \div 8), 4)
      \o ToBytesLE(ch * (bits \div 8), 2)
      \o ToBytesLE(bits, 2) \o <<100, 97, 116, 97>> \o <<255, 255, 255, 255>>

\* n payload bytes, all different
Payload(n) == [i \in 1..n |-> 200 + i]

\* 44 bytes that are no header: raw PCM, "RIFF" without "WAVE", "WAVE" without "RIFF"
RawPCM == [i \in 1..HeaderLen |-> i]
RiffOnly == RIFF \o [i \in 1..(HeaderLen - 4) |-> 100 + i]
WaveOnly == [i \in 1..8 |-> i] \o WAVE \o [i \in 1..(HeaderLen - 12) |-> 100 + i]

WavHeaders ==
    {WavHeader(ch, sr, bits) : ch \in {0, 1, 2}, sr \in {0, 24000, 48000},
                               bits \in {0, 4, 8, 16}}
NoHeaders == {RawPCM, RiffOnly, WaveOnly}

Prefix(s, k) == SubSeq(s, 1, IF k < Len(s) THEN k ELSE Len(s))

\* every truncation of header + payload
OpenAIStreams ==
    {Prefix(h \o Payload(MaxPayload), k) :
        h \in WavHeaders \cup NoHeaders, k \in 0..(HeaderLen + MaxPayload)}
GoogleStreams == {Payload(n) : n \in 0..(MaxPayload + 1)}

----------------------------------------------------------------------------
(* The adapters alone: one engine.stream(...) generator pulled to exhaustion, *)
(* the upstream response cut into fragments in every way                      *)

\* no voice given (Synthesize.voice is None)
NoVoice == <<>>

\* EngineRegistry.__init__: one instance of each engine for the whole process
Registry ==
    [google |-> "GoogleTTSEngine",
     openai |-> [default_model |-> "gpt-4o-mini-tts"]]

\* no event handled yet
NoEvent == [type |-> "none", text |-> <<>>]

\* self._synthesize: None (set is FALSE) or Synthesize(text, voice)
NoSynth == [set |-> FALSE, text |-> <<>>, voice |-> NoVoice]

HandlerInit ==
    /\ is_streaming = "None"
    /\ sbd = <<>>
    /\ synthesize_ = NoSynth
    /\ req = NoEvent
    /\ todo = <<>>
    /\ announced = FALSE
    /\ trace = <<>>
    /\ nreq = 0 /\ utt = 0 /\ picks = 0 /\ calls = 0
    /\ sentences = <<>> /\ spoken = <<>> /\ last = "none"
    /\ voice_name = NoVoice /\ started = FALSE
    /\ registry = Registry
    /\ orphan = NoGen

InitEngine ==
    /\ HandlerInit
    /\ peer = <<>>
    /\ streaming = FALSE
    /\ pc = "bench"
    /\ \E p \in {"google", "openai"} :
         /\ gen = NewGen(p)
         /\ stream \in (IF p = "google" THEN GoogleStreams ELSE OpenAIStreams)
    /\ upos = 0
    /\ emitted = <<>>

AdapterStart ==
    /\ pc = "bench" /\ gen.pos = "start"
    /\ gen' = GenStart(gen)
    /\ emitted' = Yields(emitted, gen')
    /\ UNCHANGED <<stream, upos, hvars, ovars, pvars>>

AdapterFeed ==
    /\ pc = "bench" /\ gen.pos = "read"
    /\ \E n \in 0..Remaining :
         /\ gen' = GenFeed(gen, Fragment(n))
         /\ upos' = upos + n
    /\ emitted' = Yields(emitted, gen')
    /\ UNCHANGED <<stream, hvars, ovars, pvars>>

AdapterResume ==
    /\ pc = "bench" /\ Suspended(gen)
    /\ gen' = GenResume(gen)
    /\ emitted' = Yields(emitted, gen')
    /\ UNCHANGED <<stream, upos, hvars, ovars, pvars>>

AdapterEnd ==
    /\ pc = "bench" /\ gen.pos = "read" /\ Remaining = 0
    /\ gen' = GenEnd(gen)
    /\ UNCHANGED <<stream, upos, emitted, hvars, ovars, pvars>>

NextEngine == AdapterStart \/ AdapterFeed \/ AdapterResume \/ AdapterEnd

SpecEngine == InitEngine /\ [][NextEngine]_vars

----------------------------------------------------------------------------
(* Text: Python's str.strip, str.splitlines and " ".join *)

IsSpace(c) == c \in {" ", "\n", "\t"}

RECURSIVE LStrip(_)
LStrip(t) == IF t # <<>> /\ IsSpace(Head(t)) THEN LStrip(Tail(t)) ELSE t

RECURSIVE RStrip(_)
RStrip(t) ==
    IF t # <<>> /\ IsSpace(t[Len(t)]) THEN RStrip(SubSeq(t, 1, Len(t) - 1)) ELSE t

\* t.strip()
Strip(t) == RStrip(LStrip(t))

\* index of the first line break of t, 0 when it has none
FirstBreak(t) ==
    IF \E i \in 1..Len(t) : t[i] = "\n"
    THEN CHOOSE i \in 1..Len(t) : t[i] = "\n" /\ \A j \in 1..(i - 1) : t[j] # "\n"
    ELSE 0

RECURSIVE SplitLines(_)
\* t.splitlines(): no line for the empty string, none after a final line break
SplitLines(t) ==
    IF t = <<>> THEN <<>>
    ELSE LET i == FirstBreak(t)
         IN  IF i = 0 THEN <<t>>
             ELSE <<SubSeq(t, 1, i - 1)>> \o SplitLines(SubSeq(t, i + 1, Len(t)))

RECURSIVE Join(_, _)
\* sep.join(parts)
Join(sep, parts) ==
    IF parts = <<>> THEN <<>>
    ELSE IF Len(parts) = 1 THEN Head(parts)
    ELSE Head(parts) \o sep \o Join(sep, Tail(parts))

\* Collapse without .strip()
CollapseNoStrip(text) == Join(<<" ">>, SplitLines(text))

\* handler.py:60  " ".join(synthesize.text.strip().splitlines())
Collapse(text) == Join(<<" ">>, SplitLines(Strip(text)))

----------------------------------------------------------------------------
(* engines.py: EngineRegistry.pick *)

\* s.lower() of one voice-name segment
Lower(s) ==
    CASE s = "US" -> "us"
      [] s = "Chirp3" -> "chirp3"
      [] s = "HD" -> "hd"
      [] s = "Charon" -> "charon"
      [] s = "Wavenet" -> "wavenet"
      [] s = "A" -> "a"
      [] OTHER -> s

LowerVoice(v) == [i \in 1..Len(v) |-> Lower(v[i])]

\* "-" + "-".join(infix) + "-" in "-".join(v): the infix segments in a row, with a
\* segment before them and a segment after them
HasInfix(v, infix) ==
    \E i \in 2..Len(v) :
        /\ i + Len(infix) - 1 < Len(v)
        /\ SubSeq(v, i, i + Len(infix) - 1) = infix

\* pick's implicit `return None`
NoPick == [provider |-> "none", voice |-> NoVoice]

\* EngineRegistry.pick(voice_name): (provider, engine, normalized_voice), or None
pick(name) ==
    LET v == LowerVoice(name)
    IN  IF HasInfix(v, <<"chirp3", "hd">>) THEN [provider |-> "google", voice |-> v]
        ELSE IF HasInfix(v, <<"openai">>) THEN [provider |-> "openai", voice |-> v]
        ELSE NoPick

\* getattr(self.cli_args, "voice", "en-US-Chirp3-HD-Charon"): __main__ defines no
\* --voice option
DefaultVoice == <<"en", "US", "Chirp3", "HD", "Charon">>

----------------------------------------------------------------------------
(* handler.py: events *)

\* events read from the client (type and text; a voice goes where the handler puts it)
DescribeEv == [type |-> "describe", text |-> <<>>]
SynthesizeEv(text) == [type |-> "synthesize", text |-> text]
StartEv == [type |-> "synthesize-start", text |-> <<>>]
ChunkEv == [type |-> "synthesize-chunk", text |-> <<>>]
StopEv == [type |-> "synthesize-stop", text |-> <<>>]
OtherEv == [type |-> "other", text |-> <<>>]

\* events written to the client; utt numbers the _synthesize_with_engine call that
\* wrote the event (0: written by handle_event itself)
Ev(type, u, fmt, audio, code) ==
    [type |-> type, utt |-> u, fmt |-> fmt, audio |-> audio, code |-> code]
InfoEv == Ev("info", 0, NoFormat, <<>>, "")
AudioStartEv(u, fmt) == Ev("audio-start", u, fmt, <<>>, "")
\* handler.py:158  rate=getattr(cli_args, "sample_rate", 22050), width=2, channels=1
AudioChunkEv(u, data) == Ev("audio-chunk", u, AudioFormat(22050, 2, 1), data, "")
AudioStopEv(u) == Ev("audio-stop", u, NoFormat, <<>>, "")
SynthesizeStoppedEv == Ev("synthesize-stopped", 0, NoFormat, <<>>, "")
\* Error(text=str(err), code=err.__class__.__name__)
ErrorEv(code) == Ev("error", 0, NoFormat, <<>>, code)

\* default arguments of _synthesize_with_engine; every call site passes True
send_start == TRUE
send_stop == TRUE

----------------------------------------------------------------------------
(* handler.py: CloudStreamerEventHandler.handle_event, cut at the points     *)
(* where it waits for the engine generator                                   *)

\* the handler's fields and the history, as one value the steps below pass on
H ==
    [is_streaming |-> is_streaming, sbd |-> sbd, synthesize_ |-> synthesize_,
     req |-> req, trace |-> trace, nreq |-> nreq, utt |-> utt, picks |-> picks,
     calls |-> calls, sentences |-> sentences, spoken |-> spoken,
     voice_name |-> voice_name, started |-> started]

Commit(h) ==
    /\ is_streaming' = h.is_streaming
    /\ sbd' = h.sbd
    /\ synthesize_' = h.synthesize_
    /\ req' = h.req
    /\ trace' = h.trace
    /\ nreq' = h.nreq
    /\ utt' = h.utt
    /\ picks' = h.picks
    /\ calls' = h.calls
    /\ sentences' = h.sentences
    /\ spoken' = h.spoken
    /\ voice_name' = h.voice_name
    /\ started' = h.started

\* a new event arrives: handle_event(event) is entered
Enter(ev) == [H EXCEPT !.req = ev, !.nreq = @ + 1, !.spoken = <<>>]

Write(h, ev) == [h EXCEPT !.trace = Append(@, ev)]

\* handle_event is left (return or exception): the locals of its frames are
\* gone; nothing closes the generator it was pulling (there is no aclose() in
\* _synthesize_with_engine), so one that is suspended at a yield stays as it is
Unwind ==
    /\ gen' = NoGen
    /\ orphan' = IF Suspended(gen) THEN gen ELSE orphan
    /\ stream' = <<>>
    /\ upos' = 0
    /\ emitted' = <<>>
    /\ todo' = <<>>
    /\ announced' = FALSE

\* return True
Return(h) ==
    /\ Commit(h)
    /\ pc' = "idle"
    /\ last' = "ok"
    /\ Unwind
    /\ UNCHANGED <<streaming, peer, registry>>

\* Raise without line 129: the exception is reported and swallowed, and the
\* connection goes on
RaiseSwallowed(h, code) ==
    /\ Commit(Write(h, ErrorEv(code)))
    /\ pc' = "idle"
    /\ last' = "raised"
    /\ Unwind
    /\ UNCHANGED <<streaming, peer, registry>>

\* handler.py:124-129  except Exception: write Error, raise; the server drops
\* the connection
Raise(h, code) ==
    /\ Commit(Write(h, ErrorEv(code)))
    /\ pc' = "closed"
    /\ last' = "raised"
    /\ Unwind
    /\ UNCHANGED <<streaming, peer, registry>>

\* handler.py:141-145  _synthesize_with_engine up to the creation of the generator;
\* unpacking pick's None raises TypeError
BeginSynth(h, text, voice, rest) ==
    LET p == pick(voice)
        h1 == [h EXCEPT !.picks = @ + 1, !.utt = @ + 1, !.spoken = Append(@, text),
                        !.voice_name = voice]
    IN  IF p = NoPick
        THEN Raise(h1, "TypeError")
        ELSE /\ Commit([h1 EXCEPT !.calls = @ + 1])
             /\ gen' = NewGen(p.provider)
             /\ stream' = <<>>
             /\ upos' = 0
             /\ emitted' = <<>>
             /\ announced' = FALSE
             /\ todo' = rest
             /\ pc' = "synth"
             /\ last' = "running"
             /\ UNCHANGED <<streaming, pvars>>

\* handler.py:98, 112  the voice of the stream
StreamVoice(h) ==
    IF h.synthesize_.voice # NoVoice THEN h.synthesize_.voice ELSE DefaultVoice

\* ChunkLoop taking the sentences from the last one to the first
ChunkLoopLastFirst(h, sents) ==
    IF sents = <<>> THEN Return(h)
    ELSE LET s == sents[Len(sents)]
             rest == SubSeq(sents, 1, Len(sents) - 1)
         IN  IF Strip(s) = <<>> THEN Return(h)
             ELSE BeginSynth([h EXCEPT !.synthesize_.text = s], s, StreamVoice(h), rest)

\* handler.py:92-103  the for loop over the sentences add_chunk returned, from
\* the sentences not yet visited
ChunkLoop(h, sents) ==
    IF sents = <<>> THEN Return(h)
    ELSE IF Strip(Head(sents)) = <<>> THEN Return(h)
    ELSE BeginSynth([h EXCEPT !.synthesize_.text = Head(sents)],
                    Head(sents), StreamVoice(h), Tail(sents))

\* FinishStop without line 117
FinishStopNoAck(h) ==
    Return([h EXCEPT !.is_streaming = "False"])

\* handler.py:117-120
FinishStop(h) ==
    Return([Write(h, SynthesizeStoppedEv) EXCEPT !.is_streaming = "False"])

\* where handle_event goes on after _synthesize_with_engine returned
AfterUtterance(h) ==
    IF h.req.type = "synthesize-chunk" THEN ChunkLoop(h, todo)
    ELSE IF h.req.type = "synthesize-stop" THEN FinishStop(h)
    ELSE Return(h)

----------------------------------------------------------------------------
(* Inputs that are tried *)

SynthTexts == {<<>>, <<" ", "\n", " ">>, <<" ", "a", "\n", "b", " ">>}
VoiceInputs == {NoVoice, <<"en", "US", "openai", "alloy">>, <<"en", "US", "Wavenet", "A">>}

\* what SentenceBoundaryDetector.add_chunk may return: every list of at most
\* MaxSentences sentences, each one blank or a text of its own ("a.", "aa.",
\* ...), and what it holds back
Sentence(i) == [k \in 1..i |-> "a"] \o <<".">>
SentenceLists ==
    UNION {{s \in [1..n -> {<<" ">>} \cup {Sentence(i) : i \in 1..n}] :
               \A i \in 1..n : s[i] \in {<<" ">>, Sentence(i)}} :
           n \in 0..MaxSentences}
Remainders == {<<>>, <<"c">>}

\* upstream responses of one utterance, and the fragment sizes they arrive in
RelayStreams(provider) ==
    IF provider = "google"
    THEN {Payload(2)}
    ELSE {Prefix(WavHeader(1, 24000, 16), 10), WavHeader(1, 24000, 16) \o Payload(1)}
RelaySizes ==
    IF gen.provider = "google"
    THEN {n \in {0, 1} : n <= Remaining}
    ELSE {n \in {0, HeaderLen, Remaining} : n <= Remaining}

----------------------------------------------------------------------------
(* handler.py: the relay of one connection *)

Init ==
    /\ HandlerInit
    /\ streaming \in BOOLEAN
    /\ pc = "idle"
    /\ gen = NoGen
    /\ stream = <<>>
    /\ upos = 0
    /\ emitted = <<>>
    /\ peer = <<>>

\* the server reads the next event of a connection when handle_event has
\* returned True; two connections receive fewer than MaxRequests events in all
Ready ==
    /\ pc = "idle"
    /\ nreq < MaxRequests
    /\ peer # <<>> => nreq + peer[1].nreq + 1 < MaxRequests

\* handler.py:49-52
HandleDescribe ==
    /\ Ready
    /\ Return(Write(Enter(DescribeEv), InfoEv))

\* HandleSynthesize with line 56 reading `if Synthesize.is_type(event.type):`
HandleSynthesizeInStream ==
    /\ Ready
    /\ \E t \in SynthTexts, v \in VoiceInputs :
         LET h == Enter(SynthesizeEv(t))
             text == Collapse(t)
             voice == IF v # NoVoice THEN v ELSE DefaultVoice
         IN  IF text = <<>>
             THEN Return(Write(h, AudioStopEv(0)))
             ELSE BeginSynth(h, text, voice, <<>>)

\* handler.py:56-71 (one-shot); with a stream open the event falls through to
\* line 122
HandleSynthesize ==
    /\ Ready
    /\ \E t \in SynthTexts, v \in VoiceInputs :
         LET h == Enter(SynthesizeEv(t))
             text == Collapse(t)
             voice == IF v # NoVoice THEN v ELSE DefaultVoice
         IN  IF is_streaming # "True"
             THEN IF text = <<>>
                  THEN Return(Write(h, AudioStopEv(0)))
                  ELSE BeginSynth(h, text, voice, <<>>)
             ELSE Return(h)

\* HandleStart without lines 74-75: the --streaming option is not looked at
HandleStartAnyway ==
    /\ Ready
    /\ \E v \in VoiceInputs :
         LET h == [Enter(StartEv) EXCEPT !.started = TRUE]
         IN  Return([h EXCEPT !.is_streaming = "True",
                              !.sbd = <<>>,
                              !.synthesize_ = [set |-> TRUE, text |-> <<>>,
                                               voice |-> v]])

\* handler.py:73-84
HandleStart ==
    /\ Ready
    /\ \E v \in VoiceInputs :
         LET h == [Enter(StartEv) EXCEPT !.started = TRUE]
         IN  IF ~streaming THEN Return(h)
             ELSE Return([h EXCEPT !.is_streaming = "True",
                                   !.sbd = <<>>,
                                   !.synthesize_ = [set |-> TRUE, text |-> <<>>,
                                                    voice |-> v]])

\* handler.py:73-75, 87-103; add_chunk is the sentence_stream library's: it
\* returns some list of sentences and keeps some remainder
HandleChunk ==
    /\ Ready
    /\ \E sents \in SentenceLists, rem \in Remainders :
         LET h == Enter(ChunkEv)
         IN  IF ~streaming THEN Return(h)
             ELSE IF ~synthesize_.set THEN Raise(h, "AssertionError")
             ELSE ChunkLoop([h EXCEPT !.sbd = rem, !.sentences = sents], sents)

\* handler.py:73-75, 105-120; finish() returns the remainder and clears it
HandleStop ==
    /\ Ready
    /\ LET h == Enter(StopEv)
           final_text == sbd
       IN  IF ~streaming THEN Return(h)
           ELSE IF ~synthesize_.set THEN Raise(h, "AssertionError")
           ELSE IF final_text # <<>>
                THEN BeginSynth([h EXCEPT !.sbd = <<>>], final_text, StreamVoice(h), <<>>)
                ELSE FinishStop([h EXCEPT !.sbd = <<>>])

\* handler.py:122  any other event type
HandleOther ==
    /\ Ready
    /\ Return(Enter(OtherEv))

\* handler.py:145  first pull of the generator; the upstream answers with one of
\* the responses
EngineOpen ==
    /\ pc = "synth" /\ gen.pos = "start"
    /\ stream' \in RelayStreams(gen.provider)
    /\ gen' = GenStart(gen)
    /\ emitted' = Yields(emitted, gen')
    /\ UNCHANGED <<upos, hvars, ovars, pvars>>

\* the generator reads the next fragment of the response
EngineRead ==
    /\ pc = "synth" /\ gen.pos = "read"
    /\ \E n \in RelaySizes :
         /\ gen' = GenFeed(gen, Fragment(n))
         /\ upos' = upos + n
    /\ emitted' = Yields(emitted, gen')
    /\ UNCHANGED <<stream, hvars, ovars, pvars>>

\* handler.py:146-159  the body of the async for, for the pair the generator is
\* suspended on, and the next pull
Relay ==
    /\ pc = "synth" /\ Suspended(gen)
    /\ IF gen.out.kind = "format"
       THEN IF send_start /\ ~announced
            THEN /\ trace' = Append(trace, AudioStartEv(utt, gen.out.fmt))
                 /\ announced' = TRUE
            ELSE UNCHANGED <<trace, announced>>
       ELSE /\ trace' = Append(trace, AudioChunkEv(utt, gen.out.data))
            /\ UNCHANGED announced
    /\ gen' = GenResume(gen)
    /\ emitted' = Yields(emitted, gen')
    /\ UNCHANGED <<streaming, is_streaming, sbd, synthesize_, pc, req, todo,
                   stream, upos, ovars, pvars>>

\* the response is exhausted: the generator returns
EngineEnd ==
    /\ pc = "synth" /\ gen.pos = "read" /\ Remaining = 0
    /\ gen' = GenEnd(gen)
    /\ UNCHANGED <<stream, upos, emitted, hvars, ovars, pvars>>

\* Finish with line 161 reading `if send_stop:`
FinishAlwaysStop ==
    /\ pc = "synth" /\ gen.pos = "done"
    /\ AfterUtterance(IF send_stop THEN Write(H, AudioStopEv(utt)) ELSE H)

\* handler.py:161-162 and the rest of handle_event
Finish ==
    /\ pc = "synth" /\ gen.pos = "done"
    /\ AfterUtterance(IF send_stop /\ announced THEN Write(H, AudioStopEv(utt)) ELSE H)

\* the provider call fails (client construction, the request, or the read of
\* the response): the exception leaves the generator and reaches handle_event
EngineRaise ==
    /\ pc = "synth" /\ gen.pos \in {"start", "read"}
    /\ Raise(H, "UpstreamError")

Next ==
    \/ HandleDescribe \/ HandleSynthesize \/ HandleStart \/ HandleChunk
    \/ HandleStop \/ HandleOther
    \/ EngineOpen \/ EngineRead \/ Relay \/ EngineEnd \/ Finish \/ EngineRaise

Spec == Init /\ [][Next]_vars

\* the steps of a handle_event call that is under way and does not fail
Progress == EngineOpen \/ EngineRead \/ Relay \/ EngineEnd \/ Finish

\* the event loop keeps running a handler that can take a step; requests and
\* provider failures are not obliged to happen
FairSpec == Spec /\ WF_vars(Progress)

----------------------------------------------------------------------------
(* Two connections served by one event loop: each has its own                *)
(* CloudStreamerEventHandler and its own generators; cli_args and the        *)
(* engine instances of ENGINE_REGISTRY are the process's                     *)

\* what belongs to the connection that is running: the fields of its handler,
\* the frames of its handle_event call and of the generator it pulls, its history
Conn ==
    [is_streaming |-> is_streaming, sbd |-> sbd, synthesize_ |-> synthesize_,
     pc |-> pc, req |-> req, todo |-> todo, announced |-> announced,
     trace |-> trace, gen |-> gen, stream |-> stream, upos |-> upos,
     emitted |-> emitted, nreq |-> nreq, utt |-> utt, picks |-> picks,
     calls |-> calls, sentences |-> sentences, spoken |-> spoken,
     voice_name |-> voice_name, started |-> started, last |-> last]

\* Load with got_header and header_buf kept on the engine instance the
\* connections share (self.got_header, self.header_buf) instead of in the
\* generator's frame
LoadSharedParse(c) ==
    /\ Commit(c)
    /\ pc' = c.pc /\ todo' = c.todo /\ announced' = c.announced
    /\ gen' = [c.gen EXCEPT !.got_header = gen.got_header,
                            !.header_buf = gen.header_buf]
    /\ stream' = c.stream /\ upos' = c.upos /\ emitted' = c.emitted
    /\ last' = c.last

\* the event loop resumes connection c where it waited
Load(c) ==
    /\ Commit(c)
    /\ pc' = c.pc /\ todo' = c.todo /\ announced' = c.announced
    /\ gen' = c.gen
    /\ stream' = c.stream /\ upos' = c.upos /\ emitted' = c.emitted
    /\ last' = c.last

\* the running connection waits: for its next event, or in the write_event of
\* the pair its generator yielded (handler.py:150, 157), of the AudioStop or of
\* the SynthesizeStopped (handler.py:162, 117); the provider reads in between
\* (engines.py:62, 117) are synchronous and give the loop no turn
AtAwait ==
    \/ pc \in {"idle", "closed"}
    \/ pc = "synth" /\ (Suspended(gen) \/ gen.pos = "done")

\* the event loop turns to the other connection
Switch ==
    /\ peer # <<>>
    /\ AtAwait
    /\ peer' = <<Conn>>
    /\ Load(peer[1])
    /\ UNCHANGED <<streaming, registry, orphan>>

InitPair ==
    /\ HandlerInit
    /\ streaming \in BOOLEAN
    /\ pc = "idle"
    /\ gen = NoGen
    /\ stream = <<>>
    /\ upos = 0
    /\ emitted = <<>>
    /\ peer = <<Conn>>

NextPair ==
    \/ HandleDescribe \/ HandleSynthesize \/ HandleStart \/ HandleChunk
    \/ HandleStop \/ HandleOther
    \/ EngineOpen \/ EngineRead \/ Relay \/ EngineEnd \/ Finish \/ EngineRaise
    \/ Switch

SpecPair == InitPair /\ [][NextPair]_vars

----------------------------------------------------------------------------
(* A relay that stops pulling in the middle of an utterance                   *)

\* an await of write_event in the async-for body (handler.py:150, 157) does not
\* return: the client is gone and the write raises (the write of the Error
\* event in the except clause raises as well), or the connection's task is
\* cancelled; handle_event is left with the generator suspended at its yield
Abort ==
    /\ pc = "synth" /\ Suspended(gen)
    /\ Commit(H)
    /\ pc' = "closed"
    /\ last' = "aborted"
    /\ Unwind
    /\ UNCHANGED <<streaming, peer, registry>>

\* the garbage collector finds the abandoned generator and the event loop's
\* asyncgen hook runs aclose() on it: GeneratorExit at the yield leaves the
\* `with` block (engines.py:111) or drops `responses` (engines.py:61)
Finalize ==
    /\ Suspended(orphan)
    /\ orphan' = GenEnd(orphan)
    /\ UNCHANGED <<hvars, gvars, ovars, peer, registry>>

NextCancel ==
    \/ HandleDescribe \/ HandleSynthesize \/ HandleStart \/ HandleChunk
    \/ HandleStop \/ HandleOther
    \/ EngineOpen \/ EngineRead \/ Relay \/ EngineEnd \/ Finish \/ EngineRaise
    \/ Abort \/ Finalize

SpecCancel == Init /\ [][NextCancel]_vars

----------------------------------------------------------------------------
(* Properties *)

Indices(seq) == 1..Len(seq)

\* the positions of `seq` whose element has the given field value
TypeAt(seq, type) == {i \in Indices(seq) : seq[i].type = type}
KindAt(seq, kind) == {i \in Indices(seq) : seq[i].kind = kind}

\* positions of the events written for utterance u
OfUtt(u, type) == {i \in TypeAt(trace, type) : trace[i].utt = u}

\* _synthesize_with_engine call number u has returned without an exception
Relayed(u) == u \in 1..utt /\ (u < utt \/ (pc = "idle" /\ last = "ok"))

\* C1: of every utterance relayed by _synthesize_with_engine the written events
\* hold at most one AudioStart and at most one AudioStop, an AudioStop only after
\* an AudioStart of the same utterance, and once the engine's sequence is
\* exhausted without an exception an AudioStart is followed by exactly one
\* AudioStop that comes after every AudioChunk of the utterance.
C1_StartStopPaired ==
    \A u \in 1..utt :
        /\ Cardinality(OfUtt(u, "audio-start")) <= 1
        /\ Cardinality(OfUtt(u, "audio-stop")) <= 1
        /\ \A i \in OfUtt(u, "audio-stop") :
               \E j \in OfUtt(u, "audio-start") : j < i
        /\ \A i \in OfUtt(u, "audio-chunk") :
               \A j \in OfUtt(u, "audio-stop") : i < j
        /\ Relayed(u) =>
               \A j \in OfUtt(u, "audio-start") :
                   /\ Cardinality(OfUtt(u, "audio-stop")) = 1
                   /\ \A i \in OfUtt(u, "audio-stop") : j < i

\* an utterance relayed to its end with a start, a chunk and a stop, and another
\* one relayed to its end with no event at all
C1_Witness ==
    /\ \E u \in 1..utt :
         /\ Relayed(u)
         /\ OfUtt(u, "audio-start") # {}
         /\ OfUtt(u, "audio-chunk") # {}
         /\ OfUtt(u, "audio-stop") # {}
    /\ \E u \in 1..utt :
         /\ Relayed(u)
         /\ \A i \in Indices(trace) : trace[i].utt # u

\* the adapter's generator has returned
AdapterDone == pc = "bench" /\ gen.pos = "done"

Truncated == gen.provider = "openai" /\ Len(stream) < HeaderLen

RECURSIVE NonBlank(_)
\* the sentences of a list that are not whitespace-only, in order
NonBlank(sents) ==
    IF sents = <<>> THEN <<>>
    ELSE IF Strip(Head(sents)) = <<>> THEN NonBlank(Tail(sents))
    ELSE <<Head(sents)>> \o NonBlank(Tail(sents))

\* handle_event has returned True for the event in req
Returned(type) == req.type = type /\ pc = "idle" /\ last = "ok"

\* C3: while a stream is open, of the sentences the segmenter returns for one
\* StreamChunk every non-empty one is synthesized as its own utterance exactly
\* once and in the order returned, and every whitespace-only one is skipped; a
\* whitespace-only sentence does not keep the sentences after it from being
\* synthesized.
C3_EverySentenceSpoken ==
    (is_streaming = "True" /\ Returned("synthesize-chunk")) =>
        spoken = NonBlank(sentences)

LastEvent == trace[Len(trace)]
CountStopped == Cardinality(TypeAt(trace, "synthesize-stopped"))

\* C4 as stated: a StreamStop that follows a StreamStart, in every configuration
\* of the handler, ends with a SynthesizeStopped event written after the audio
\* of the remainder and with is_streaming false.
C4_StopAcknowledged ==
    (started /\ Returned("synthesize-stop")) =>
        /\ trace # <<>>
        /\ LastEvent.type = "synthesize-stopped"
        /\ is_streaming # "True"

\* this step is handle_event returning True for a StreamStop
StopReturns ==
    /\ req'.type = "synthesize-stop" /\ pc' = "idle" /\ last' = "ok"
    /\ nreq' = nreq + 1 \/ pc = "synth"

\* C4 as amended: with the streaming option enabled, a StreamStop that follows a
\* StreamStart writes exactly one SynthesizeStopped event, after every audio
\* event of the remainder utterance and whether or not finish() returned text,
\* and ends with is_streaming false; it does so eventually unless the synthesis
\* of the remainder fails.
C4_StopAcknowledgedWhenStreaming ==
    /\ [](streaming /\ started /\ Returned("synthesize-stop") =>
            /\ trace # <<>>
            /\ LastEvent.type = "synthesize-stopped"
            /\ is_streaming = "False"
            /\ \A i \in Indices(trace) : trace[i].utt = utt /\ utt > 0 => i < Len(trace))
    /\ [][streaming /\ started =>
            CountStopped' = CountStopped + (IF StopReturns THEN 1 ELSE 0)]_vars
    /\ []<>~(streaming /\ started /\ req.type = "synthesize-stop" /\ pc = "synth")

\* a StreamStop whose remainder was synthesized with audio, then acknowledged
C4_Witness ==
    /\ streaming /\ started /\ Returned("synthesize-stop")
    /\ spoken # <<>>
    /\ OfUtt(utt, "audio-chunk") # {}
    /\ Len(trace) >= 2
    /\ trace[Len(trace) - 1] = AudioStopEv(utt)
    /\ LastEvent.type = "synthesize-stopped"

\* C5: a voice identifier with neither infix makes the request fail with an
\* Error event whose code is UnroutableVoice, and no AudioStart, AudioChunk or
\* AudioStop is written for the request.
C5_UnroutableVoiceError ==
    (utt > 0 /\ pick(voice_name) = NoPick) =>
        /\ trace # <<>>
        /\ LastEvent.type = "error"
        /\ LastEvent.code = "UnroutableVoice"
        /\ \A i \in Indices(trace) : trace[i].utt # utt

IsPrefix(a, b) == Len(a) <= Len(b) /\ SubSeq(b, 1, Len(a)) = a

\* C6: an exception during registry lookup or adapter streaming makes the relay
\* write exactly one Error event (message and code) and re-raise; the Error event
\* is the last event of the connection, and what was written before stays.
C6_ErrorIsLast ==
    /\ [](\A i \in TypeAt(trace, "error") : i = Len(trace) /\ trace[i].code # "")
    /\ [](utt > 0 /\ pick(voice_name) = NoPick => last = "raised")
    /\ [](last = "raised" =>
            pc = "closed" /\ trace # <<>> /\ LastEvent.type = "error")
    /\ [][IsPrefix(trace, trace')]_vars
    /\ [][last' = "raised" /\ last # "raised" =>
            Len(trace') = Len(trace) + 1 /\ trace'[Len(trace')].type = "error"]_vars

\* the upstream failed in the middle of an utterance: a start and a chunk were
\* written, then the Error
C6_Witness ==
    /\ pc = "closed"
    /\ OfUtt(utt, "audio-start") # {}
    /\ OfUtt(utt, "audio-chunk") # {}
    /\ OfUtt(utt, "audio-stop") = {}
    /\ LastEvent.type = "error"

RECURSIVE ConcatChunks(_)
\* the payloads of the 'chunk' events of a sequence, one after the other
ConcatChunks(em) ==
    IF em = <<>> THEN <<>>
    ELSE (IF Head(em).kind = "chunk" THEN Head(em).data ELSE <<>>)
            \o ConcatChunks(Tail(em))

\* the response begins with a 44-byte RIFF/WAVE header
HasWavHeader(st) ==
    Len(st) >= HeaderLen /\ Slice(st, 0, 4) = RIFF /\ Slice(st, 8, 12) = WAVE
HeaderChannels(st) == FromBytesLE(Slice(st, 22, 24))
HeaderRate(st) == FromBytesLE(Slice(st, 24, 28))
HeaderBits(st) == FromBytesLE(Slice(st, 34, 36))

OpenAIDone == AdapterDone /\ gen.provider = "openai"

\* C7 as stated: for a response that begins with a 44-byte RIFF/WAVE header, cut
\* into fragments in any way, the 'chunk' payloads concatenate to exactly the
\* bytes after the header, and the single 'format' event carries the header's
\* rate, channels and bits/8.
C7_PayloadAndHeaderFormat ==
    (OpenAIDone /\ HasWavHeader(stream)) =>
        /\ ConcatChunks(emitted) = SliceFrom(stream, HeaderLen)
        /\ Cardinality(KindAt(emitted, "format")) = 1
        /\ emitted[1] = FormatEvent(AudioFormat(HeaderRate(stream),
                                                HeaderBits(stream) \div 8,
                                                HeaderChannels(stream)))

\* a header field, or the adapter's default when the field is zero
OrDefault(x, default) == IF x # 0 THEN x ELSE default

\* C7 as amended: the 'chunk' payloads concatenate to exactly the bytes after the
\* header, and the single 'format' event carries the header's rate, channels and
\* bits/8 where these are not zero and 24000 Hz, 1 channel, width 2 for a value
\* that is zero.
C7_PayloadAndNonZeroHeaderFormat ==
    (OpenAIDone /\ HasWavHeader(stream)) =>
        /\ ConcatChunks(emitted) = SliceFrom(stream, HeaderLen)
        /\ Cardinality(KindAt(emitted, "format")) = 1
        /\ emitted[1] = FormatEvent(AudioFormat(
                            OrDefault(HeaderRate(stream), 24000),
                            OrDefault(HeaderBits(stream) \div 8, 2),
                            OrDefault(HeaderChannels(stream), 1)))

\* a mono 24000 Hz 16-bit header in a fragment that also holds payload, the rest
\* of the payload in a later fragment
C7_Witness ==
    /\ OpenAIDone /\ HasWavHeader(stream)
    /\ Len(stream) = HeaderLen + MaxPayload
    /\ emitted[1] = FormatEvent(AudioFormat(24000, 2, 1))
    /\ Cardinality(KindAt(emitted, "chunk")) >= 2
    /\ gen.header_buf # Prefix(stream, HeaderLen)
    /\ ConcatChunks(emitted) = Payload(MaxPayload)

\* C8: the detector emits nothing while fewer than 44 bytes have been
\* accumulated; as soon as 44 or more are accumulated without 'RIFF' at 0..3 or
\* 'WAVE' at 8..11 it resolves with offset 0 and no format override: the format
\* is 24000 Hz / width 2 / 1 channel and every accumulated byte is payload.
C8_UnresolvedThenRaw ==
    (pc = "bench" /\ gen.provider = "openai") =>
        /\ upos < HeaderLen => emitted = <<>> /\ ~Suspended(gen) /\ ~gen.got_header
        /\ (upos >= HeaderLen /\ ~HasWavHeader(stream)) =>
              /\ gen.data_off = 0
              /\ emitted # <<>>
              /\ emitted[1] = FormatEvent(AudioFormat(24000, 2, 1))
              /\ gen.pos # "yield_format" =>
                    ConcatChunks(emitted) = Prefix(stream, upos)

\* 'RIFF' without 'WAVE', received in more than one fragment and emitted whole
C8_Witness ==
    /\ OpenAIDone
    /\ Len(stream) > HeaderLen
    /\ Slice(stream, 0, 4) = RIFF /\ ~HasWavHeader(stream)
    /\ Cardinality(KindAt(emitted, "chunk")) >= 2
    /\ ConcatChunks(emitted) = stream

\* C9: when the upstream of the header-prefixed-container adapter ends before 44
\* bytes, the adapter emits no 'format' and no 'chunk' and signals that no audio
\* was produced, so the relay does not end the utterance silently with no
\* AudioStart, no AudioStop and no Error: the step that follows the generator's
\* return raises or writes an event of the utterance.
C9_TruncatedIsSignalled ==
    [][(pc = "synth" /\ gen.provider = "openai" /\ gen.pos = "done"
          /\ Len(stream) < HeaderLen) =>
          /\ emitted = <<>>
          /\ \/ last' = "raised"
             \/ \E i \in Indices(trace') : i > Len(trace) /\ trace'[i].utt = utt]_vars

AllSpace(t) == \A i \in Indices(t) : IsSpace(t[i])

\* this step is handle_event taking a Synthesize event with no stream open and
\* a text that is empty or whitespace-only once its lines are collapsed
EmptyOneShot ==
    /\ nreq' = nreq + 1
    /\ req'.type = "synthesize"
    /\ is_streaming # "True"
    /\ AllSpace(Join(<<" ">>, SplitLines(Strip(req'.text))))

\* C10: a one-shot Synthesize whose text is empty or whitespace-only writes
\* exactly one AudioStop and no AudioStart or AudioChunk, makes no registry
\* lookup and no provider call, and leaves the relay state unchanged.
C10_EmptyOneShot ==
    [][EmptyOneShot =>
          /\ trace' = Append(trace, AudioStopEv(0))
          /\ picks' = picks /\ calls' = calls /\ utt' = utt
          /\ pc' = "idle" /\ last' = "ok"
          /\ UNCHANGED <<is_streaming, sbd, synthesize_, gvars>>]_vars

\* a whitespace-only one-shot request was answered with the stop signal
C10_Witness ==
    /\ Returned("synthesize")
    /\ req.text # <<>> /\ AllSpace(req.text)
    /\ is_streaming # "True"
    /\ trace # <<>> /\ LastEvent = AudioStopEv(0)

\* C11: within one connection no two provider streams are active at the same
\* time: a generator is created only when none is running, the events of the
\* utterances are written utterance after utterance, no AudioStart of one
\* utterance lies between the AudioStart and the AudioStop of another, and the
\* utterances of a StreamChunk are those of its sentences in the order add_chunk
\* returned them.
C11_OneStreamAtATime ==
    /\ [](\A i, j \in Indices(trace) :
            (i < j /\ trace[i].utt > 0 /\ trace[j].utt > 0) =>
                trace[i].utt <= trace[j].utt)
    /\ [](\A u, v \in 1..utt :
            u # v =>
              \A i \in OfUtt(u, "audio-start"), k \in OfUtt(u, "audio-stop") :
                  \A j \in OfUtt(v, "audio-start") : ~(i < j /\ j < k))
    /\ [](req.type = "synthesize-chunk" => IsPrefix(spoken, NonBlank(sentences)))
    /\ [][calls' # calls => calls' = calls + 1 /\ gen.pos = "done"]_vars

\* a StreamChunk of two different sentences, each relayed from its AudioStart to
\* its AudioStop, the first one first
C11_Witness ==
    /\ Returned("synthesize-chunk")
    /\ Len(spoken) = 2 /\ spoken[1] # spoken[2] /\ spoken = sentences
    /\ OfUtt(utt - 1, "audio-start") # {} /\ OfUtt(utt - 1, "audio-stop") # {}
    /\ OfUtt(utt, "audio-start") # {} /\ OfUtt(utt, "audio-stop") # {}
    /\ \A i \in OfUtt(utt - 1, "audio-stop") :
           \A j \in OfUtt(utt, "audio-start") : i < j

\* the pairs the generator yielded whose async-for body has run
Handled(em, g) == IF Suspended(g) THEN SubSeq(em, 1, Len(em) - 1) ELSE em

RECURSIVE Written(_, _, _)
\* the events handler.py:146-159 writes for the pairs em of utterance u
Written(em, u, ann) ==
    IF em = <<>> THEN <<>>
    ELSE IF Head(em).kind = "format"
    THEN (IF ann THEN <<>> ELSE <<AudioStartEv(u, Head(em).fmt)>>)
            \o Written(Tail(em), u, TRUE)
    ELSE <<AudioChunkEv(u, Head(em).data)>> \o Written(Tail(em), u, ann)

\* the events of a trace that belong to utterance u
UttEvents(tr, u) == SelectSeq(tr, LAMBDA e : e.utt = u)

\* what a response yields as 'chunk' payload when it is read to its end
PayloadOf(st) ==
    IF Len(st) < HeaderLen THEN <<>>
    ELSE IF HasWavHeader(st) THEN SliceFrom(st, HeaderLen)
    ELSE st

\* connection c, in the middle of an utterance, is where its own requests and its
\* own upstream response have brought it
Alone(c) ==
    c.pc = "synth" =>
        /\ UttEvents(c.trace, c.utt) = Written(Handled(c.emitted, c.gen), c.utt, FALSE)
        /\ c.announced = (KindAt(Handled(c.emitted, c.gen), "format") # {})
        /\ c.gen.provider = "openai" =>
              /\ IsPrefix(c.gen.header_buf, c.stream)
              /\ c.gen.got_header => Len(c.gen.header_buf) >= HeaderLen
              /\ c.gen.pos = "done" => ConcatChunks(c.emitted) = PayloadOf(c.stream)
        /\ c.gen.provider = "google" =>
              ConcatChunks(c.emitted) = Prefix(c.stream, c.upos)

\* C12: when two connections are served concurrently and interleave at every
\* await, both using the engine instances of ENGINE_REGISTRY, nothing of one
\* connection (segmenter, streaming flag, recorded voice, header buffer,
\* header-resolved flag, trace) is read or written by the steps of the other:
\* the engine instances never change, a connection resumes in exactly the state
\* in which it waited, and what each has written is what its own requests and
\* upstream responses yield.
C12_ConnectionsIsolated ==
    /\ [][registry' = registry]_vars
    /\ [][peer' # peer => peer' = <<Conn>> /\ Conn' = peer[1]]_vars
    /\ [](Alone(Conn) /\ \A i \in Indices(peer) : Alone(peer[i]))

\* both connections are in the middle of an utterance of the header-prefixed-
\* container adapter, each after its AudioStart, with different header buffers
C12_Witness ==
    /\ peer # <<>>
    /\ pc = "synth" /\ gen.provider = "openai" /\ Suspended(gen)
    /\ peer[1].pc = "synth" /\ peer[1].gen.provider = "openai"
    /\ Suspended(peer[1].gen)
    /\ gen.header_buf # peer[1].gen.header_buf
    /\ trace # <<>> /\ peer[1].trace # <<>>

\* C13: when the relay stops pulling an adapter's sequence before it is
\* exhausted (an exception while writing an event, or the connection being
\* cancelled in the middle of an utterance) the upstream stream the adapter
\* opened is closed: in every state in which the handler has finished or aborted
\* an utterance, no upstream stream of that utterance is open.
C13_UpstreamClosedOnAbort ==
    pc \in {"idle", "closed"} => gen.resp # "open" /\ orphan.resp # "open"

\* C14: for every utterance and both providers, every AudioChunk event the
\* relay writes carries the rate, width and channels of the AudioStart event
\* written for that utterance (the format of the adapter's 'format' event).
C14_ChunkFormatIsAnnounced ==
    \A u \in 1..utt :
        \A i \in OfUtt(u, "audio-chunk") :
            /\ OfUtt(u, "audio-start") # {}
            /\ \A j \in OfUtt(u, "audio-start") : trace[i].fmt = trace[j].fmt

\* C15: every 'format' event of the header-prefixed-container adapter has rate,
\* width and channels strictly positive, whatever the 44 header bytes are: a
\* header field that is zero, or a bits-per-sample below 8, leaves the default
\* (24000 Hz, 1 channel, width 2) in place, and a field that is not zero replaces
\* its own default only.
C15_FormatPositive ==
    (pc = "bench" /\ gen.provider = "openai") =>
        \A i \in KindAt(emitted, "format") :
            LET fmt == emitted[i].fmt
                bits == HeaderBits(stream)
            IN  /\ fmt.rate > 0 /\ fmt.width > 0 /\ fmt.channels > 0
                /\ fmt.rate =
                      IF HasWavHeader(stream) /\ HeaderRate(stream) > 0
                      THEN HeaderRate(stream) ELSE DefaultRate
                /\ fmt.channels =
                      IF HasWavHeader(stream) /\ HeaderChannels(stream) > 0
                      THEN HeaderChannels(stream) ELSE DefaultChannels
                /\ fmt.width =
                      IF HasWavHeader(stream) /\ bits >= 8
                      THEN bits \div 8 ELSE DefaultWidth

\* a header with 0 channels, 48000 Hz and 4 bits per sample: only the rate is
\* taken from it
C15_Witness ==
    /\ OpenAIDone /\ HasWavHeader(stream)
    /\ HeaderChannels(stream) = 0 /\ HeaderRate(stream) = 48000
    /\ HeaderBits(stream) = 4
    /\ emitted # <<>>
    /\ emitted[1] = FormatEvent(AudioFormat(48000, DefaultWidth, DefaultChannels))

\* this step is handle_event taking an event of the given types
Takes(types) == nreq' = nreq + 1 /\ req'.type \in types

\* the events this step writes
NewEvents == {trace'[i] : i \in (Len(trace) + 1)..Len(trace')}

\* C16: a StreamChunk or StreamStop that arrives while no stream is open (before
\* any StreamStart, or after a StreamStop with no new StreamStart) synthesizes
\* nothing and writes no audio event and no SynthesizeStopped event: the
\* assertion that a stream record exists rejects it in both cases.
C16_NoStreamNoSynthesis ==
    [][(Takes({"synthesize-chunk", "synthesize-stop"}) /\ is_streaming # "True") =>
          /\ utt' = utt /\ pc' # "synth"
          /\ \A e \in NewEvents :
                e.type \notin {"audio-start", "audio-chunk", "audio-stop",
                               "synthesize-stopped"}]_vars

\* C17: a one-shot Synthesize request that arrives while a stream is open writes
\* no event, calls no provider and changes neither the segmenter state, the
\* recorded voice nor the streaming flag; after StreamStop a Synthesize request
\* is handled as one-shot again (the stop signal for an empty text, a registry
\* lookup and an utterance otherwise).
C17_SynthesizeIgnoredInStream ==
    /\ [][(Takes({"synthesize"}) /\ is_streaming = "True") =>
            /\ trace' = trace
            /\ picks' = picks /\ calls' = calls /\ utt' = utt
            /\ pc' = "idle" /\ last' = "ok"
            /\ UNCHANGED <<is_streaming, sbd, synthesize_>>]_vars
    /\ [][(Takes({"synthesize"}) /\ is_streaming = "False") =>
            /\ UNCHANGED <<is_streaming, sbd, synthesize_>>
            /\ IF Collapse(req'.text) = <<>>
               THEN trace' = Append(trace, AudioStopEv(0)) /\ utt' = utt
               ELSE /\ picks' = picks + 1 /\ utt' = utt + 1
                    /\ spoken' = <<Collapse(req'.text)>>]_vars

\* a Synthesize request with text went by while a stream was open, and nothing
\* was looked up, synthesized or written
C17_Witness ==
    /\ Returned("synthesize")
    /\ Collapse(req.text) # <<>>
    /\ is_streaming = "True" /\ synthesize_.set
    /\ trace = <<>> /\ utt = 0 /\ picks = 0 /\ calls = 0

\* C18: with the streaming option disabled, every StreamStart, StreamChunk and
\* StreamStop request writes no event and leaves the streaming flag, the
\* segmenter and the recorded voice unchanged, and a one-shot Synthesize request
\* is served in every such state (the stop signal for an empty text, a registry
\* lookup and an utterance otherwise).
C18_StreamingDisabled ==
    /\ [][(~streaming /\ Takes({"synthesize-start", "synthesize-chunk",
                                 "synthesize-stop"})) =>
            /\ trace' = trace
            /\ picks' = picks /\ calls' = calls /\ utt' = utt
            /\ pc' = "idle" /\ last' = "ok"
            /\ UNCHANGED <<is_streaming, sbd, synthesize_>>]_vars
    /\ [](~streaming => is_streaming = "None" /\ sbd = <<>> /\ synthesize_ = NoSynth)
    /\ [][(~streaming /\ Takes({"synthesize"})) =>
            IF Collapse(req'.text) = <<>>
            THEN trace' = Append(trace, AudioStopEv(0)) /\ utt' = utt
            ELSE /\ picks' = picks + 1 /\ utt' = utt + 1
                 /\ spoken' = <<Collapse(req'.text)>>]_vars

\* with streaming disabled a StreamStart and another event went by, then a
\* Synthesize request was relayed with audio
C18_Witness ==
    /\ ~streaming /\ started /\ nreq >= 3
    /\ Returned("synthesize")
    /\ is_streaming = "None"
    /\ utt = 1
    /\ OfUtt(1, "audio-start") # {} /\ OfUtt(1, "audio-chunk") # {}
    /\ OfUtt(1, "audio-stop") # {}
    /\ Len(trace) = Cardinality(OfUtt(1, "audio-start") \cup OfUtt(1, "audio-chunk")
                                   \cup OfUtt(1, "audio-stop"))

====
